---- MODULE Spec2Model ----
(***************************************************************************)
(* Load stage of the HN pipeline (src/src/load/hn_load.py, main): a run    *)
(* ledger (audit.load_runs), a transfer buffer (staging.hn_stories_tmp)    *)
(* and the permanent store, driven over one psycopg2 connection with       *)
(* autocommit off.  The database is modelled as a committed image `db` and *)
(* the connection's working image `tx`; commit copies tx to db, rollback   *)
(* copies db to tx.  A statement that fails inside a transaction leaves   *)
(* it aborted: every later statement on the connection raises until a      *)
(* rollback.  The SQL scripts under sql/load are described by what spec    *)
(* sections 4.2-4.4 say they do.  A connection can also be lost: then     *)
(* every call on it raises, conn.rollback() included, and the server       *)
(* discards the pending work.                                              *)
(*                                                                         *)
(* The other stages have a section each, with a specification of its own   *)
(* whose initial states draw the inputs: the retry loop of http_get_json   *)
(* (hn_extract.py), the deduplication of hn_transform.py, the file         *)
(* selection of common/files.py and pick_latest_parquet, the chain of      *)
(* pipeline.py, the mart stage (hn_mart.py) and two load runs at once.     *)
(***************************************************************************)
EXTENDS Integers, Sequences, FiniteSets, TLC

\* ---------------------------------------------------------------- bounds
MaxRuns == 2
MaxFiles == 1
MaxId == 2

\* most attempts of one http_get_json call
MaxRetries == 5
\* most raw records in one raw file
MaxRaw == 3
\* width of the timestamp in a staging file name, most files listed
Width == 2
MaxListed == 2
\* most runs of the reporting layer
MaxMartRuns == 3

\* ------------------------------------------------------ program constants
NULL == -1
ErrMsgMax == 4000
EmptyCopyMsgLen == 46
NotFoundMsgLen == 49

Scores == {5, 7}
Ids == 1..MaxId
Names == 1..MaxFiles
Rows == [id : Ids, score : Scores]
\* an artifact: rows with unique ids (listed by id), possibly none
Artifacts ==
  {a \in UNION {[1..n -> Rows] : n \in 0..MaxId} :
     \A i \in 1..(Len(a) - 1) : a[i].id < a[i + 1].id}
\* contents the permanent store can have: at most one row per id
Stores == {S \in SUBSET Rows : \A r1, r2 \in S : r1.id = r2.id => r1 = r2}
NoArtifact == <<[id |-> 0, score |-> 0]>>
\* len(str(e)) of a database error: longer than the ledger keeps
DbErrLen == ErrMsgMax + 1

VARIABLES
  files,        \* names matching hn_staging_*.parquet in the staging directory
  latest,       \* rows of the greatest-named artifact (the only one read)
  db,           \* committed database image: [store, tmp, ledger]
  tx,           \* the connection's working image of the same three tables
  txState,      \* "idle" | "open" | "aborted" (a statement failed in it)
                \* | "closed" (the connection is lost)
  pc,           \* position of main
  run_id,       \* uuid of the current run (fresh per run)
  source_file,  \* name picked by pick_latest_parquet, or NULL
  rows_copied, inserted, updated,
  err,          \* len(str(e)) of the exception being handled or leaving
                \* main, or NULL
  failedAt,     \* where the run's first exception was raised, or "none"
  rc,           \* value main returned, or NULL (an exception left main)
  pre,          \* committed image when the run began
  lastArt,      \* content merged by the latest committed data transaction
  repeat,       \* the committed data transaction merged lastArt again
  applied,      \* this run's data transaction was committed
  auditErr,     \* logger.error reported that the FAILED write itself failed
  crashedAt,    \* where the run's process was killed, or "none"
  conc,         \* two load runs on connections of their own
  norm,         \* hn_transform.run: raw records and the frame it keeps
  dir,          \* data/staging/hn by file name, and a pipeline run over it
  http,         \* one call of http_get_json
  mart          \* hn_mart.main and the reporting objects

vars == <<files, latest, db, tx, txState, pc, run_id, source_file, rows_copied,
          inserted, updated, err, failedAt, rc, pre, lastArt, repeat,
          applied, auditErr, crashedAt, conc, norm, dir, http, mart>>

locals == <<rows_copied, inserted, updated>>
ghosts == <<pre, lastArt, repeat, applied, auditErr, crashedAt>>
\* the other stages, apart from the load run above
stages == <<conc, norm, dir, http, mart>>

\* ------------------------------------------------- the other stages, idle
\* hn_mart.py, lines 42-45: the scripts list
NumScripts == 2
Scripts == 1..NumScripts
\* load runs that interleave
Pair == {1, 2}
NoError == [kind |-> "none", attempt |-> 0]
NoFile == [stamp |-> <<>>, ext |-> "none", mtime |-> 0]

ConcIdle ==
  [pc |-> [r \in Pair |-> "idle"], art |-> [r \in Pair |-> <<>>],
   buf |-> [c \in Pair |-> <<>>], rows_copied |-> [r \in Pair |-> NULL],
   merged |-> [r \in Pair |-> <<>>], tmp |-> <<>>]
NormIdle == [raw |-> <<>>, df |-> <<>>, state |-> "idle"]
DirIdle ==
  [listing |-> {}, raw |-> FALSE, wrote |-> NoFile, pattern |-> "none",
   picked |-> NoFile, stage |-> "idle", outcome |-> "none"]
HttpIdle ==
  [retries |-> 0, backoff_sec |-> 1, attempt |-> 0, requests |-> 0,
   slept |-> <<>>, last_error |-> NoError, outcome |-> "idle",
   result |-> NULL, raised |-> NoError]
\* db, tx, pre: for each script, the run whose execution of it is in the
\* committed image, the working image, the committed image at connect
MartIdle ==
  [pc |-> "idle", run |-> 0, db |-> [i \in Scripts |-> 0],
   tx |-> [i \in Scripts |-> 0], pre |-> [i \in Scripts |-> 0],
   order |-> <<>>, rc |-> NULL, conn |-> "none"]

\* ------------------------------------------------------------- helpers
Max(S) == CHOOSE x \in S : \A y \in S : y <= x

\* sorted(dir_path.glob(...))[-1]
pick_latest_parquet(S) == Max(S)

\* pd.read_parquet(source_file)[cols]: source_file is the greatest name, and
\* no artifact is written while a run is in progress
read_parquet(name) == latest

\* str(e)[:4000]
Truncate(n) == IF n > ErrMsgMax THEN ErrMsgMax ELSE n

RunningRow(rid, src) ==
  [run_id |-> rid, source_file |-> src, status |-> "running",
   finished_at |-> FALSE, rows_copied |-> NULL,
   rows_merged_inserted |-> NULL, rows_merged_updated |-> NULL,
   error_message |-> NULL]

FailedRow(rid, src, msg) ==
  [run_id |-> rid, source_file |-> src, status |-> "failed",
   finished_at |-> TRUE, rows_copied |-> NULL,
   rows_merged_inserted |-> NULL, rows_merged_updated |-> NULL,
   error_message |-> msg]

\* the UPDATE's parameters bound in the wrong order
UpdateSuccessSwapped(L, rid, n, ins, upd) ==
  {IF r.run_id = rid
     THEN [r EXCEPT !.finished_at = TRUE, !.status = "success",
                    !.rows_copied = ins, !.rows_merged_inserted = n,
                    !.rows_merged_updated = upd]
     ELSE r : r \in L}

\* UPDATE audit.load_runs SET ... status = 'success' ... WHERE run_id = %s
UpdateSuccess(L, rid, n, ins, upd) ==
  {IF r.run_id = rid
     THEN [r EXCEPT !.finished_at = TRUE, !.status = "success",
                    !.rows_copied = n, !.rows_merged_inserted = ins,
                    !.rows_merged_updated = upd]
     ELSE r : r \in L}

\* the UPDATE without its status assignment
UpdateFailedKeepsStatus(L, rid, msg) ==
  {IF r.run_id = rid
     THEN [r EXCEPT !.finished_at = TRUE, !.error_message = msg]
     ELSE r : r \in L}

\* UPDATE audit.load_runs SET ... status = 'failed' ... WHERE run_id = %s
UpdateFailed(L, rid, msg) ==
  {IF r.run_id = rid
     THEN [r EXCEPT !.finished_at = TRUE, !.status = "failed",
                    !.error_message = msg]
     ELSE r : r \in L}

\* cur.rowcount of that UPDATE
RowCount(L, rid) == Cardinality({r \in L : r.run_id = rid})

\* the UPDATE alone, without the INSERT for a missing row
WriteFailedUpdateOnly(L, rid, src, msg) == UpdateFailed(L, rid, msg)

\* the UPDATE, then the INSERT when it matched no row
WriteFailed(L, rid, src, msg) ==
  IF RowCount(L, rid) = 0
    THEN L \cup {FailedRow(rid, src, msg)}
    ELSE UpdateFailed(L, rid, msg)

\* SELECT COUNT(*) FROM staging.hn_stories_tmp
CountTmp(t) == Len(t)

\* ---- sql/load/02_tmp.sql: create (or reset) the transfer buffer
create_buffer(t) == <<>>

\* COPY staging.hn_stories_tmp FROM STDIN: every csv row of the artifact
copy_expert(t, rowsIn) == t \o rowsIn

\* ---- sql/load/03_merge.sql: one upsert keyed by id
BufIds(t) == {t[i].id : i \in 1..Len(t)}
StoreIds(S) == {r.id : r \in S}
LastOf(t, k) == t[Max({i \in 1..Len(t) : t[i].id = k})]
\* a full refresh: the store becomes the buffer's rows
MergeStoreReplaces(S, t) == {LastOf(t, k) : k \in BufIds(t)}

MergeStore(S, t) ==
  {r \in S : r.id \notin BufIds(t)} \cup {LastOf(t, k) : k \in BufIds(t)}
MergeCounts(S, t) ==
  <<Cardinality(BufIds(t) \ StoreIds(S)),
    Cardinality(BufIds(t) \cap StoreIds(S))>>

\* the result row read in the wrong order
FetchCountsSwapped(res) == [inserted |-> res[2], updated |-> res[1]]

\* inserted, updated = cur.fetchone()
FetchCounts(res) == [inserted |-> res[1], updated |-> res[2]]

\* conn.commit(): the working image becomes the committed one
Commit(committed, working) == working

\* a rollback that keeps the pending work
RollbackKeeps(committed, working) == working

\* conn.rollback(): the working image is discarded
Rollback(committed, working) == committed

\* ---------------------------------------------------------------- Init
\* no other stage is running
StagesIdle ==
  /\ conc = ConcIdle
  /\ norm = NormIdle
  /\ dir = DirIdle
  /\ http = HttpIdle
  /\ mart = MartIdle

\* the load stage before its first run, over an empty database
LoadIdle ==
  /\ files = {}
  /\ latest = NoArtifact
  /\ db = [store |-> {}, tmp |-> <<>>, ledger |-> {}]
  /\ tx = db
  /\ txState = "idle"
  /\ pc = "idle"
  /\ run_id = 0
  /\ source_file = NULL
  /\ rows_copied = NULL /\ inserted = NULL /\ updated = NULL
  /\ err = NULL
  /\ failedAt = "none"
  /\ rc = NULL
  /\ pre = db
  /\ lastArt = NoArtifact
  /\ repeat = FALSE
  /\ applied = FALSE
  /\ auditErr = FALSE
  /\ crashedAt = "none"

Init == LoadIdle /\ StagesIdle

Resting == pc \in {"idle", "done", "crashed"}

\* an earlier stage leaves a new artifact in data/staging/hn
WriteArtifact ==
  /\ Resting
  /\ \E n \in Names \ files, c \in Artifacts :
        /\ files' = files \cup {n}
        /\ latest' = IF n = Max(files') THEN c ELSE latest
  /\ UNCHANGED <<stages, db, tx, txState, pc, run_id, source_file, locals,
                 err, failedAt, rc, ghosts>>

\* main, lines 48-55: fresh run_id, connect, autocommit off
Begin ==
  /\ Resting
  /\ run_id < MaxRuns
  /\ run_id' = run_id + 1
  /\ source_file' = NULL
  /\ rows_copied' = NULL /\ inserted' = NULL /\ updated' = NULL
  /\ err' = NULL /\ failedAt' = "none" /\ rc' = NULL
  /\ tx' = db /\ txState' = "idle"
  /\ pre' = db
  /\ repeat' = FALSE
  /\ applied' = FALSE
  /\ auditErr' = FALSE
  /\ crashedAt' = "none"
  /\ pc' = "pick"
  /\ UNCHANGED <<stages, files, latest, db, lastArt>>

\* line 54: psycopg2.connect raises before the try: the exception leaves
\* main, nothing is written and nothing is closed
ConnectRaises ==
  /\ Resting
  /\ run_id < MaxRuns
  /\ run_id' = run_id + 1
  /\ source_file' = NULL
  /\ rows_copied' = NULL /\ inserted' = NULL /\ updated' = NULL
  /\ err' = DbErrLen /\ failedAt' = "connect" /\ rc' = NULL
  /\ tx' = db /\ txState' = "closed"
  /\ pre' = db
  /\ repeat' = FALSE
  /\ applied' = FALSE
  /\ auditErr' = FALSE
  /\ crashedAt' = "none"
  /\ pc' = "done"
  /\ UNCHANGED <<stages, files, latest, db, lastArt>>

\* what the server keeps of a transaction whose statement raised: the
\* aborted transaction until the rollback, nothing once the connection is lost
Pending(committed, working, state) ==
  IF state = "closed" THEN committed ELSE working

\* an exception raised at the current step
Raise(n, state, to) ==
  /\ err' = n
  /\ failedAt' = pc
  /\ txState' = state
  /\ pc' = to

\* lines 57-59: source_file = pick_latest_parquet(staging_dir)
PickOk ==
  /\ pc = "pick"
  /\ files # {}
  /\ source_file' = pick_latest_parquet(files)
  /\ pc' = "audit"
  /\ UNCHANGED <<stages, files, latest, db, tx, txState, run_id, locals, err, failedAt, rc,
                 ghosts>>

PickNotFound ==
  /\ pc = "pick"
  /\ files = {}
  /\ Raise(NotFoundMsgLen, txState, "handler")
  /\ UNCHANGED <<stages, files, latest, db, tx, run_id, source_file, locals, rc, ghosts>>

\* lines 62-70: 01_audit.sql, then INSERT ... 'running'
AuditRunningOk ==
  /\ pc = "audit"
  /\ tx' = [tx EXCEPT !.ledger = @ \cup {RunningRow(run_id, source_file)}]
  /\ txState' = "open"
  /\ pc' = "commit_running"
  /\ UNCHANGED <<stages, files, latest, db, run_id, source_file, locals, err, failedAt, rc,
                 ghosts>>

\* read_sql raises (connection untouched), a statement raises (the
\* transaction is aborted until the next rollback) or the connection is lost
AuditRunningRaises ==
  /\ pc = "audit"
  /\ \E st \in {"idle", "aborted", "closed"} :
        /\ Raise(DbErrLen, st, "handler")
        /\ tx' = Pending(db, tx, st)
  /\ UNCHANGED <<stages, files, latest, db, run_id, source_file, locals, rc, ghosts>>

\* the 'running' insert left uncommitted
CommitRunningSkipped ==
  /\ pc = "commit_running"
  /\ pc' = "tmp"
  /\ UNCHANGED <<stages, files, latest, db, tx, txState, run_id, source_file, locals,
                 err, failedAt, rc, ghosts>>

\* line 71: conn.commit()
CommitRunningOk ==
  /\ pc = "commit_running"
  /\ db' = Commit(db, tx)
  /\ txState' = "idle"
  /\ pc' = "tmp"
  /\ UNCHANGED <<stages, files, latest, tx, run_id, source_file, locals, err, failedAt, rc,
                 ghosts>>

CommitRunningRaises ==
  /\ pc = "commit_running"
  /\ tx' = Rollback(db, tx)
  /\ \E st \in {"idle", "closed"} : Raise(DbErrLen, st, "handler")
  /\ UNCHANGED <<stages, files, latest, db, run_id, source_file, locals, rc, ghosts>>

\* line 76: 02_tmp.sql
CreateBufferOk ==
  /\ pc = "tmp"
  /\ tx' = [tx EXCEPT !.tmp = create_buffer(@)]
  /\ txState' = "open"
  /\ pc' = "copy"
  /\ UNCHANGED <<stages, files, latest, db, run_id, source_file, locals, err, failedAt, rc,
                 ghosts>>

\* lines 78-98: read_parquet, to_csv, copy_expert
BulkCopyOk ==
  /\ pc = "copy"
  /\ tx' = [tx EXCEPT !.tmp = copy_expert(@, read_parquet(source_file))]
  /\ pc' = "count"
  /\ UNCHANGED <<stages, files, latest, db, txState, run_id, source_file, locals, err,
                 failedAt, rc, ghosts>>

\* lines 100-103: count the buffer; zero rows is an error
CountRows ==
  /\ pc = "count"
  /\ rows_copied' = CountTmp(tx.tmp)
  /\ IF rows_copied' = 0
       THEN Raise(EmptyCopyMsgLen, txState, "rollback")
       ELSE /\ pc' = "merge"
            /\ UNCHANGED <<err, failedAt, txState>>
  /\ UNCHANGED <<stages, files, latest, db, tx, run_id, source_file, inserted, updated, rc,
                 ghosts>>

\* lines 105-107: 03_merge.sql and its result row
MergeOk ==
  /\ pc = "merge"
  /\ LET res == FetchCounts(MergeCounts(tx.store, tx.tmp))
     IN  /\ inserted' = res.inserted
         /\ updated' = res.updated
  /\ tx' = [tx EXCEPT !.store = MergeStore(@, tx.tmp)]
  /\ pc' = "upd_success"
  /\ UNCHANGED <<stages, files, latest, db, txState, run_id, source_file, rows_copied, err,
                 failedAt, rc, ghosts>>

\* lines 109-120: UPDATE ... status = 'success'
UpdateSuccessOk ==
  /\ pc = "upd_success"
  /\ tx' = [tx EXCEPT !.ledger =
              UpdateSuccess(@, run_id, rows_copied, inserted, updated)]
  /\ pc' = "commit_work"
  /\ UNCHANGED <<stages, files, latest, db, txState, run_id, source_file, locals, err,
                 failedAt, rc, ghosts>>

\* a statement of the work transaction raises (lines 76-120)
WorkRaises ==
  /\ pc \in {"tmp", "copy", "merge", "upd_success"}
  /\ \E st \in {"aborted", "closed"} :
        /\ Raise(DbErrLen, st, "rollback")
        /\ tx' = Pending(db, tx, st)
  /\ UNCHANGED <<stages, files, latest, db, run_id, source_file, locals, rc, ghosts>>

\* line 125: conn.commit()
CommitWorkOk ==
  /\ pc = "commit_work"
  /\ db' = Commit(db, tx)
  /\ txState' = "idle"
  /\ repeat' = (lastArt = read_parquet(source_file))
  /\ lastArt' = read_parquet(source_file)
  /\ applied' = TRUE
  /\ pc' = "log_complete"
  /\ UNCHANGED <<stages, files, latest, tx, run_id, source_file, locals, err,
                 failedAt, rc, pre, auditErr, crashedAt>>

CommitWorkRaises ==
  /\ pc = "commit_work"
  /\ tx' = Rollback(db, tx)
  /\ \E st \in {"idle", "closed"} : Raise(DbErrLen, st, "rollback")
  /\ UNCHANGED <<stages, files, latest, db, run_id, source_file, locals, rc, ghosts>>

\* lines 126-130: logger.info(...); return 0
LogCompleteOk ==
  /\ pc = "log_complete"
  /\ rc' = 0
  /\ pc' = "close"
  /\ UNCHANGED <<stages, files, latest, db, tx, txState, run_id, source_file, locals, err,
                 failedAt, ghosts>>

\* the same lines are inside the try: what they raise is handled like a
\* failure of the work transaction
LogCompleteRaises ==
  /\ pc = "log_complete"
  /\ Raise(DbErrLen, txState, "rollback")
  /\ UNCHANGED <<stages, files, latest, db, tx, run_id, source_file, locals, rc, ghosts>>

\* lines 132-134: except Exception: conn.rollback(); raise
RollbackWork ==
  /\ pc = "rollback"
  /\ txState # "closed"
  /\ tx' = Rollback(db, tx)
  /\ txState' = "idle"
  /\ pc' = "handler"
  /\ UNCHANGED <<stages, files, latest, db, run_id, source_file, locals, err, failedAt, rc,
                 ghosts>>

\* line 133 on a lost connection: conn.rollback() raises, and its exception
\* is the one the handler of line 136 receives
RollbackWorkRaises ==
  /\ pc = "rollback"
  /\ txState = "closed"
  /\ err' = DbErrLen
  /\ pc' = "handler"
  /\ UNCHANGED <<stages, files, latest, db, tx, txState, run_id, source_file, locals,
                 failedAt, rc, ghosts>>

\* lines 136-162 and 167-168: write FAILED, commit, return 1
HandlerOk ==
  /\ pc = "handler"
  /\ txState \notin {"aborted", "closed"}
  /\ LET L == WriteFailed(tx.ledger, run_id, source_file, Truncate(err))
     IN  /\ tx' = [tx EXCEPT !.ledger = L]
         /\ db' = Commit(db, tx')
  /\ txState' = "idle"
  /\ rc' = 1
  /\ pc' = "close"
  /\ UNCHANGED <<stages, files, latest, run_id, source_file, locals, err, failedAt, ghosts>>

\* lines 163-168: the FAILED write raises (always so in an aborted
\* transaction): rollback, log, return 1
HandlerRaises ==
  /\ pc = "handler"
  /\ txState # "closed"
  /\ tx' = Rollback(db, tx)
  /\ txState' = "idle"
  /\ auditErr' = TRUE
  /\ rc' = 1
  /\ pc' = "close"
  /\ UNCHANGED <<stages, files, latest, db, run_id, source_file, locals, err,
                 failedAt, pre, lastArt, repeat, applied, crashedAt>>

\* lines 163-164 on a lost connection (lost before or during the FAILED
\* write): conn.rollback() raises inside the except clause, nothing is
\* logged and the exception leaves main through the finally
HandlerEscapes ==
  /\ pc = "handler"
  /\ tx' = Rollback(db, tx)
  /\ txState' = "closed"
  /\ err' = DbErrLen
  /\ pc' = "close"
  /\ UNCHANGED <<stages, files, latest, db, run_id, source_file, locals, failedAt, rc,
                 ghosts>>

\* lines 170-171: finally: conn.close()
Close ==
  /\ pc = "close"
  /\ tx' = Rollback(db, tx)
  /\ txState' = "idle"
  /\ pc' = "done"
  /\ UNCHANGED <<stages, files, latest, db, run_id, source_file, locals, err, failedAt, rc,
                 ghosts>>

\* the process is killed: its memory is gone and the server discards the
\* open transaction
Crash ==
  /\ ~Resting
  /\ crashedAt' = pc
  /\ tx' = Rollback(db, tx)
  /\ txState' = "idle"
  /\ source_file' = NULL
  /\ rows_copied' = NULL /\ inserted' = NULL /\ updated' = NULL
  /\ err' = NULL /\ failedAt' = "none"
  /\ pc' = "crashed"
  /\ UNCHANGED <<stages, files, latest, db, run_id, rc, pre, lastArt, repeat,
                 applied, auditErr>>

Next ==
  \/ WriteArtifact
  \/ Begin
  \/ ConnectRaises
  \/ PickOk
  \/ PickNotFound
  \/ AuditRunningOk
  \/ AuditRunningRaises
  \/ CommitRunningOk
  \/ CommitRunningRaises
  \/ CreateBufferOk
  \/ BulkCopyOk
  \/ CountRows
  \/ MergeOk
  \/ UpdateSuccessOk
  \/ WorkRaises
  \/ CommitWorkOk
  \/ CommitWorkRaises
  \/ LogCompleteOk
  \/ LogCompleteRaises
  \/ RollbackWork
  \/ RollbackWorkRaises
  \/ HandlerOk
  \/ HandlerRaises
  \/ HandlerEscapes
  \/ Close
  \/ Crash


Spec == Init /\ [][Next]_vars

\* ---- the merge step alone, from every store and every buffer content ----
\* a run that has committed its 'running' row, filled the buffer from its
\* artifact and counted it, over a store left by earlier runs
InitMerge ==
  \E S \in Stores, a \in Artifacts \ {<<>>} :
    /\ files = {1}
    /\ latest = a
    /\ db = [store |-> S, tmp |-> <<>>, ledger |-> {RunningRow(1, 1)}]
    /\ tx = [db EXCEPT !.tmp = copy_expert(create_buffer(db.tmp), a)]
    /\ txState = "open"
    /\ pc = "merge"
    /\ run_id = 1
    /\ source_file = 1
    /\ rows_copied = CountTmp(tx.tmp) /\ inserted = NULL /\ updated = NULL
    /\ err = NULL
    /\ failedAt = "none"
    /\ rc = NULL
    /\ pre = db
    /\ lastArt = NoArtifact
    /\ repeat = FALSE
    /\ applied = FALSE
    /\ auditErr = FALSE
    /\ crashedAt = "none"
    /\ StagesIdle

NextMerge == MergeOk \/ UpdateSuccessOk

SpecMerge == InitMerge /\ [][NextMerge]_vars

\* ------------------------------------------------------------- claims
\* the ledger rows of the current run
MyRows(L) == {r \in L : r.run_id = run_id}

\* positions inside the work transaction (lines 74-125)
WorkSteps == {"tmp", "copy", "count", "merge", "upd_success", "commit_work"}

\* the FAILED write of this run raised: it was logged at line 165, or its
\* exception left main
FailedWriteRaised ==
  /\ pc \in {"close", "done"}
  /\ failedAt \notin {"none", "connect"}
  /\ auditErr \/ rc = NULL

RunningCommitted ==
  \E r \in db.ledger : r.run_id = run_id /\ r.status = "running"

\* C1: the 'running' ledger row of the run is committed before any step of
\* the data transaction runs (until then neither image of the buffer or the
\* store has moved), and a crash inside the data transaction leaves that
\* row committed in status 'running'.
C1_RunningBeforeData ==
  /\ pc \in {"pick", "audit", "commit_running"} =>
        /\ tx.tmp = pre.tmp /\ tx.store = pre.store
        /\ db.tmp = pre.tmp /\ db.store = pre.store
  /\ pc \in WorkSteps => RunningCommitted
  /\ (pc = "crashed" /\ crashedAt \in WorkSteps) => RunningCommitted

C1_Witness ==
  /\ pc = "crashed"
  /\ crashedAt = "upd_success"
  /\ RunningCommitted

\* C2: when a step of the data transaction raises, the run ends with the
\* committed store and the committed buffer exactly as they were when the
\* run began.
C2_RollbackRestores ==
  (pc \in {"handler", "close", "done"} /\ failedAt \in WorkSteps) =>
      /\ db.store = pre.store
      /\ db.tmp = pre.tmp
      /\ ~applied

C2_Witness ==
  /\ pc = "done"
  /\ failedAt = "upd_success"
  /\ db.store = pre.store
  /\ MergeStore(db.store, latest) # db.store
  /\ db.tmp # latest

SuccessCommitted ==
  \E r \in db.ledger : r.run_id = run_id /\ r.status = "success"

\* C3: in every committed state the ledger row of the run has status
\* 'success' if and only if the run's data transaction (its merge) is
\* committed.
C3_SuccessIffApplied == SuccessCommitted <=> applied

\* C4 as stated: every run that fails in its data transaction ends with
\* exactly one ledger row, 'failed', finished_at set, error_message
\* non-empty.
C4_AlwaysFailedRow ==
  (pc = "done" /\ failedAt \in WorkSteps) =>
      \E r \in db.ledger :
          /\ MyRows(db.ledger) = {r}
          /\ r.status = "failed"
          /\ r.finished_at
          /\ r.error_message >= 1

\* C4: a run that fails in its data transaction writes FAILED in a
\* transaction of its own (the work is rolled back and nothing is pending
\* when the write starts) and ends with exactly one ledger row: 'failed'
\* with finished_at set and the error text cut to 4000 characters when the
\* write committed, still 'running' when the write itself raised.
C4_FailedRecorded ==
  /\ (pc = "handler" /\ failedAt \in WorkSteps) =>
        tx = db /\ txState \in {"idle", "closed"}
  /\ (pc = "done" /\ failedAt \in WorkSteps) =>
        \E r \in db.ledger :
            /\ MyRows(db.ledger) = {r}
            /\ r.run_id = run_id /\ r.source_file = source_file
            /\ IF FailedWriteRaised
                 THEN r.status = "running" /\ ~r.finished_at
                      /\ r.error_message = NULL
                 ELSE r.status = "failed" /\ r.finished_at
                      /\ r.error_message >= 1
                      /\ r.error_message <= ErrMsgMax
                      /\ r.error_message = (IF err > ErrMsgMax
                                              THEN ErrMsgMax ELSE err)

C4_Witness ==
  /\ pc = "done"
  /\ failedAt = "merge"
  /\ ~auditErr
  /\ err > ErrMsgMax
  /\ \E r \in db.ledger :
        r.run_id = run_id /\ r.status = "failed"
        /\ r.error_message = ErrMsgMax

\* C5: a committed run that merges the same artifact content as the latest
\* committed run before it records inserted = 0 and leaves the permanent
\* store, content and row count, as that earlier run left it.
C5_Idempotent ==
  (applied /\ repeat) =>
      /\ db.store = pre.store
      /\ Cardinality(db.store) = Cardinality(pre.store)
      /\ MyRows(db.ledger) # {}
      /\ \A r \in MyRows(db.ledger) :
            /\ r.rows_merged_inserted = 0
            /\ r.rows_merged_updated = r.rows_copied

C5_Witness ==
  /\ pc = "done"
  /\ rc = 0
  /\ run_id = 2
  /\ applied /\ repeat
  /\ Cardinality(db.store) = 2
  /\ \E r \in MyRows(db.ledger) :
        r.status = "success" /\ r.rows_merged_inserted = 0

\* C6: one merge of a buffer with unique ids into any store returns
\* inserted = buffer ids absent before, updated = buffer ids present before;
\* afterwards the store's ids are the union, every buffer row is in the
\* store with the buffer's values, and the other rows are untouched.
C6_MergeCounts ==
  pc \in {"upd_success", "commit_work"} =>
      LET before == db.store
          after == tx.store
          t == tx.tmp
          new == {i \in 1..Len(t) : \A r \in before : r.id # t[i].id}
          old == {i \in 1..Len(t) : \E r \in before : r.id = t[i].id}
      IN  /\ inserted = Cardinality(new)
          /\ updated = Cardinality(old)
          /\ {r.id : r \in after} = {r.id : r \in before} \cup BufIds(t)
          /\ Cardinality(after) = Cardinality(before) + inserted
          /\ \A i \in 1..Len(t) : t[i] \in after
          /\ \A r \in before : r.id \notin BufIds(t) => r \in after

C6_Witness ==
  /\ pc = "upd_success"
  /\ db.store = {[id |-> 1, score |-> 5]}
  /\ tx.tmp = <<[id |-> 1, score |-> 7], [id |-> 2, score |-> 5]>>
  /\ inserted = 1 /\ updated = 1
  /\ tx.store = {[id |-> 1, score |-> 7], [id |-> 2, score |-> 5]}

\* C7: the ledger row of a successful run records rows_copied = the number
\* of rows of the run's artifact, whatever earlier runs left in the buffer,
\* and inserted + updated <= rows_copied; a run that returns 0 has exactly
\* one ledger row, in status 'success'.
C7_RowsCopied ==
  /\ \A r \in MyRows(db.ledger) :
        r.status = "success" =>
            /\ r.rows_copied = Len(lastArt)
            /\ r.rows_merged_inserted >= 0 /\ r.rows_merged_updated >= 0
            /\ r.rows_merged_inserted + r.rows_merged_updated
                  <= r.rows_copied
  /\ rc = 0 =>
        \E r \in db.ledger : MyRows(db.ledger) = {r} /\ r.status = "success"

C7_Witness ==
  /\ pc = "done"
  /\ rc = 0
  /\ run_id = 2
  /\ Len(pre.tmp) = 2
  /\ \E r \in MyRows(db.ledger) :
        r.status = "success" /\ r.rows_copied = 2 /\ Len(lastArt) = 2

\* C8: once a ledger row is 'success' or 'failed', no step of any run
\* changes it.
C8_TerminalFinal ==
  [][\A r \in db.ledger :
        r.status \in {"success", "failed"} => r \in db'.ledger]_vars

\* C9 as stated: when no artifact matches, the run ends with no ledger row
\* for its run_id and the permanent store unchanged.
C9_NoLedgerRow ==
  (pc = "done" /\ failedAt = "pick") =>
      /\ MyRows(db.ledger) = {}
      /\ db.store = pre.store

\* C9: when no artifact matches, the run aborts before the 'running' row is
\* written and before any data step: the store and the buffer are
\* unchanged, no 'running' row of the run is ever written, main never
\* returns 0, and the failure handler records the run by inserting one
\* 'failed' row with a null source_file and returns 1 (no row when that
\* write itself raised).
C9_NotFoundRecorded ==
  failedAt = "pick" =>
      /\ db.store = pre.store /\ db.tmp = pre.tmp
      /\ tx.store = pre.store /\ tx.tmp = pre.tmp
      /\ source_file = NULL
      /\ \A r \in MyRows(db.ledger) \cup MyRows(tx.ledger) :
            r.status = "failed"
      /\ pc = "done" =>
            /\ rc # 0
            /\ IF FailedWriteRaised
                 THEN MyRows(db.ledger) = {}
                 ELSE /\ rc = 1
                      /\ MyRows(db.ledger) =
                           {FailedRow(run_id, NULL, NotFoundMsgLen)}

C9_Witness ==
  /\ pc = "done"
  /\ failedAt = "pick"
  /\ rc = 1
  /\ MyRows(db.ledger) = {FailedRow(run_id, NULL, NotFoundMsgLen)}

\* C10: a run whose 'running' insert did not persist can still write its
\* terminal row (the FAILED write is able to run) and ends with exactly
\* one ledger row, in a terminal state.
C10_TerminalRowWithoutRunning ==
  /\ (pc = "handler" /\ failedAt \in {"audit", "commit_running"}) =>
        ENABLED HandlerOk
  /\ (pc = "done" /\ failedAt \in {"audit", "commit_running"}) =>
        \E r \in db.ledger :
            /\ MyRows(db.ledger) = {r}
            /\ r.status \in {"success", "failed"}

\* C11: when the buffer holds zero rows after the copy, the empty-load error
\* is raised before the merge: the merge steps are never reached with an
\* empty buffer, the store is untouched, the run takes the failure path,
\* main returns 1 and the ledger row is 'failed' with the empty-load
\* message unless the failure of the FAILED write was logged.
C11_EmptyLoadFails ==
  /\ pc \in {"merge", "upd_success", "commit_work"} => Len(tx.tmp) > 0
  /\ failedAt = "count" =>
        /\ rows_copied = 0 /\ err = EmptyCopyMsgLen
        /\ inserted = NULL /\ updated = NULL
        /\ ~applied
        /\ tx.store = pre.store /\ db.store = pre.store
        /\ pc \in {"rollback", "handler", "close", "done"}
        /\ pc \in {"close", "done"} =>
              /\ rc = 1
              /\ ~auditErr =>
                    \E r \in MyRows(db.ledger) :
                       /\ r.status = "failed"
                       /\ r.error_message = EmptyCopyMsgLen

\* len(str(e)) of the exception raised at a step of main
RaisedAt(step) ==
  IF step = "pick" THEN NotFoundMsgLen
  ELSE IF step = "count" THEN EmptyCopyMsgLen
  ELSE DbErrLen

\* C12: when the FAILED write itself raises, it is rolled back and logged
\* and does not leave main: main still returns 1, the error it reports is
\* the original one, and the committed ledger holds no 'failed' row written
\* by the failed attempt.
C12_FailedWriteContained ==
  FailedWriteRaised =>
     /\ rc = 1
     /\ failedAt # "none" /\ err = RaisedAt(failedAt)
     /\ tx = db
     /\ \A r \in MyRows(db.ledger) : r.status # "failed"

\* ---- one run over a database left by an earlier committed run ----
\* the earlier run merged the artifact t into a store that now holds S; the
\* staging directory has been emptied since, so the next artifact is new
InitLater ==
  \E S \in Stores, t \in Artifacts \ {<<>>} :
    /\ \A i \in 1..Len(t) : t[i] \in S
    /\ files = {}
    /\ latest = NoArtifact
    /\ db = [store |-> S, tmp |-> t,
             ledger |-> UpdateSuccess({RunningRow(MaxRuns - 1, 1)},
                                      MaxRuns - 1, Len(t), Len(t), 0)]
    /\ tx = db
    /\ txState = "idle"
    /\ pc = "idle"
    /\ run_id = MaxRuns - 1
    /\ source_file = NULL
    /\ rows_copied = NULL /\ inserted = NULL /\ updated = NULL
    /\ err = NULL
    /\ failedAt = "none"
    /\ rc = NULL
    /\ pre = db
    /\ lastArt = t
    /\ repeat = FALSE
    /\ applied = FALSE
    /\ auditErr = FALSE
    /\ crashedAt = "none"
    /\ StagesIdle

SpecLater == InitLater /\ [][Next]_vars

\* C13: across runs, successful or failed, the permanent store never loses
\* a row: from one committed state to the next the set of ids in the store
\* only grows, and every id occurs in at most one row.
C13_StoreNeverLosesRow ==
  [][/\ StoreIds(db.store) \subseteq StoreIds(db'.store)
     /\ db'.store \in Stores]_vars

C13_Witness ==
  /\ pc = "done" /\ applied /\ rc = 0
  /\ StoreIds(pre.store) # {}
  /\ StoreIds(pre.store) # StoreIds(db.store)
  /\ StoreIds(pre.store) \subseteq StoreIds(db.store)
  /\ \E r \in pre.store : r \notin db.store

\* line 175: raise SystemExit(main()); an exception that leaves main ends
\* the interpreter with status 1
ExitStatus == IF rc = NULL THEN 1 ELSE rc

\* C14: the exit code matches the outcome on every path: main returns 0 if
\* and only if the data transaction committed and the ledger row is
\* 'success', and every failure (artifact missing, ledger begin failure,
\* data-transaction error, connection failure) is signalled as 1, never 0.
C14_ExitCodeMatchesOutcome ==
  pc = "done" =>
     /\ rc = 0 <=> (applied /\ SuccessCommitted)
     /\ failedAt # "none" => ExitStatus = 1

\* ======================= src/src/extract/hn_extract.py: http_get_json ====
\* the variables of the load run
load == <<files, latest, db, tx, txState, pc, run_id, source_file,
          rows_copied, inserted, updated, err, failedAt, rc, pre, lastArt,
          repeat, applied, auditErr, crashedAt>>

Backoffs == {1, 2}
RequestException(k) == [kind |-> "RequestException", attempt |-> k]
OtherException(k) == [kind |-> "other", attempt |-> k]

\* line 46: time.sleep(backoff_sec * attempt)
Sleep(backoff_sec, attempt) == backoff_sec * attempt

\* lines 28-35: a call with any retries and backoff_sec; the for loop is at
\* its first value
InitHttp ==
  /\ LoadIdle
  /\ conc = ConcIdle /\ norm = NormIdle /\ dir = DirIdle /\ mart = MartIdle
  /\ \E n \in 0..MaxRetries, b \in Backoffs :
        http = [HttpIdle EXCEPT !.retries = n, !.backoff_sec = b,
                                !.attempt = 1, !.outcome = "running"]

InLoop == http.outcome = "running" /\ http.attempt <= http.retries

\* lines 37-39: the request succeeds; its json is returned (the payload is
\* named by the request that fetched it)
GetOk ==
  /\ InLoop
  /\ http' = [http EXCEPT !.requests = @ + 1, !.outcome = "returned",
                          !.result = http.requests + 1]
  /\ UNCHANGED <<load, conc, norm, dir, mart>>

\* lines 40-48: requests.get or raise_for_status raises RequestException
GetRequestException ==
  /\ InLoop
  /\ LET exc == RequestException(http.attempt)
     IN  http' =
           IF http.attempt < http.retries
             THEN [http EXCEPT
                     !.requests = @ + 1, !.last_error = exc,
                     !.slept = Append(@, Sleep(http.backoff_sec,
                                               http.attempt)),
                     !.attempt = @ + 1]
             ELSE [http EXCEPT
                     !.requests = @ + 1, !.last_error = exc,
                     !.outcome = "raised", !.raised = exc]
  /\ UNCHANGED <<load, conc, norm, dir, mart>>

\* lines 37-39 raise anything else (the body is not json): not caught
GetOtherException ==
  /\ InLoop
  /\ http' = [http EXCEPT !.requests = @ + 1, !.outcome = "raised",
                          !.raised = OtherException(http.attempt)]
  /\ UNCHANGED <<load, conc, norm, dir, mart>>

\* line 35: range(1, retries + 1) is exhausted; the function ends without
\* a return statement and the caller gets None
LoopEnds ==
  /\ http.outcome = "running"
  /\ http.attempt > http.retries
  /\ http' = [http EXCEPT !.outcome = "returned", !.result = NULL]
  /\ UNCHANGED <<load, conc, norm, dir, mart>>

NextHttp == GetOk \/ GetRequestException \/ GetOtherException \/ LoopEnds

SpecHttp == InitHttp /\ [][NextHttp]_vars

\* C19: a call with retries = n makes at most n requests, stops at the
\* first success and returns its result, sleeps backoff_sec * attempt
\* between attempts and never after the last one, raises the last attempt's
\* error when all n requests fail, and for every n ends by returning a
\* fetched result or by raising.
C19_RetryLoop ==
  /\ http.requests <= http.retries
  /\ Len(http.slept) < http.retries \/ http.slept = <<>>
  /\ \A i \in 1..Len(http.slept) : http.slept[i] = http.backoff_sec * i
  /\ http.outcome = "running" => Len(http.slept) = http.requests
  /\ http.outcome = "returned" =>
        /\ http.result # NULL
        /\ http.result = http.requests
        /\ Len(http.slept) = http.requests - 1
  /\ (http.outcome = "raised" /\ http.raised.kind = "RequestException") =>
        /\ http.requests = http.retries
        /\ http.raised = RequestException(http.retries)
        /\ Len(http.slept) = http.retries - 1

\* ================================ src/src/mart/hn_mart.py: main ==========
\* the effect of a script is abstract: the objects it builds carry the run
\* that built them (sql/mart/*.sql are not part of the sources)
MartResting == mart.pc \in {"idle", "done"}

\* lines 50-57: connect, autocommit off
MartBegin ==
  /\ MartResting
  /\ mart.run < MaxMartRuns
  /\ mart' = [mart EXCEPT !.run = @ + 1, !.conn = "open", !.tx = mart.db,
                          !.pre = mart.db, !.order = <<>>, !.rc = NULL,
                          !.pc = "scripts"]
  /\ UNCHANGED <<load, conc, norm, dir, http>>

\* line 50 raises before the try: the exception leaves main
MartConnectRaises ==
  /\ MartResting
  /\ mart.run < MaxMartRuns
  /\ mart' = [mart EXCEPT !.run = @ + 1, !.conn = "none", !.tx = mart.db,
                          !.pre = mart.db, !.order = <<>>, !.rc = NULL,
                          !.pc = "done"]
  /\ UNCHANGED <<load, conc, norm, dir, http>>

\* lines 61-63: the next script of the list runs in the open transaction
ScriptOk ==
  /\ mart.pc = "scripts"
  /\ LET i == Len(mart.order) + 1
     IN  mart' = [mart EXCEPT !.tx[i] = mart.run, !.order = Append(@, i),
                              !.pc = IF i = NumScripts THEN "commit"
                                     ELSE "scripts"]
  /\ UNCHANGED <<load, conc, norm, dir, http>>

\* reading or executing the next script raises; the connection survives
\* or is lost
ScriptRaises ==
  /\ mart.pc = "scripts"
  /\ \E c \in {"open", "lost"} :
        mart' = [mart EXCEPT !.conn = c,
                             !.tx = IF c = "lost" THEN mart.db ELSE @,
                             !.pc = "except"]
  /\ UNCHANGED <<load, conc, norm, dir, http>>

\* line 65: conn.commit()
MartCommitOk ==
  /\ mart.pc = "commit"
  /\ mart' = [mart EXCEPT !.db = mart.tx, !.pc = "log"]
  /\ UNCHANGED <<load, conc, norm, dir, http>>

MartCommitRaises ==
  /\ mart.pc = "commit"
  /\ \E c \in {"open", "lost"} :
        mart' = [mart EXCEPT !.conn = c, !.tx = mart.db, !.pc = "except"]
  /\ UNCHANGED <<load, conc, norm, dir, http>>

\* lines 66-67: logger.info(...); return 0
MartLogOk ==
  /\ mart.pc = "log"
  /\ mart' = [mart EXCEPT !.rc = 0, !.pc = "finally"]
  /\ UNCHANGED <<load, conc, norm, dir, http>>

\* line 66 is inside the try: what it raises is handled as a failure
MartLogRaises ==
  /\ mart.pc = "log"
  /\ mart' = [mart EXCEPT !.pc = "except"]
  /\ UNCHANGED <<load, conc, norm, dir, http>>

\* lines 69-72: conn.rollback(); logger.exception(...); return 1
MartRollbackOk ==
  /\ mart.pc = "except"
  /\ mart.conn = "open"
  /\ mart' = [mart EXCEPT !.tx = mart.db, !.rc = 1, !.pc = "finally"]
  /\ UNCHANGED <<load, conc, norm, dir, http>>

\* line 70 on a lost connection: conn.rollback() raises inside the except
\* clause and the exception leaves main through the finally
MartRollbackRaises ==
  /\ mart.pc = "except"
  /\ mart.conn = "lost"
  /\ mart' = [mart EXCEPT !.pc = "finally"]
  /\ UNCHANGED <<load, conc, norm, dir, http>>

\* lines 74-75: finally: conn.close()
MartClose ==
  /\ mart.pc = "finally"
  /\ mart' = [mart EXCEPT !.conn = "closed", !.tx = mart.db, !.pc = "done"]
  /\ UNCHANGED <<load, conc, norm, dir, http>>

NextMart ==
  \/ MartBegin
  \/ MartConnectRaises
  \/ ScriptOk
  \/ ScriptRaises
  \/ MartCommitOk
  \/ MartCommitRaises
  \/ MartLogOk
  \/ MartLogRaises
  \/ MartRollbackOk
  \/ MartRollbackRaises
  \/ MartClose

SpecMart == Init /\ [][NextMart]_vars

\* C20: main applies the scripts in list order inside one transaction: a
\* run that connected ends with the connection closed and either every
\* script's effect committed and return value 0, or no script's effect
\* committed and return value 1.
C20_AllOrNothing ==
  /\ mart.order = [i \in 1..Len(mart.order) |-> i]
  /\ \A i \in Scripts : mart.db[i] \in {mart.pre[i], mart.run}
  /\ (mart.pc = "done" /\ mart.conn # "none") =>
        /\ mart.conn = "closed"
        /\ \/ mart.rc = 0 /\ \A i \in Scripts : mart.db[i] = mart.run
           \/ mart.rc = 1 /\ mart.db = mart.pre

\* ============================ src/src/transform/hn_transform.py: run =====
\* a raw record by its id (NULL: missing or not numeric, NA after line 115)
\* and one attribute
RawRows == [id : Ids \cup {NULL}, score : Scores]
RawFiles == UNION {[1..n -> RawRows] : n \in 0..MaxRaw}

\* positions of the records of s with the id k
Occurrences(s, k) == {i \in 1..Len(s) : s[i].id = k}
Min(S) == CHOOSE x \in S : \A y \in S : x <= y
SubSeqAt(s, I) ==
  LET F[i \in 0..Len(s)] ==
        IF i = 0 THEN <<>>
        ELSE IF i \in I THEN Append(F[i - 1], s[i]) ELSE F[i - 1]
  IN  F[Len(s)]

\* df.drop_duplicates(subset=["id"], keep="last")
drop_duplicates_last(s) ==
  SubSeqAt(s, {i \in 1..Len(s) : i = Max(Occurrences(s, s[i].id))})

\* line 167: df.drop_duplicates(subset=["id"]): pandas keeps the first row
\* of each group of equal ids (keep="first" is the default; NA equals NA)
drop_duplicates(s) ==
  SubSeqAt(s, {i \in 1..Len(s) : i = Min(Occurrences(s, s[i].id))})

\* lines 151-163: the latest raw file holds any records
InitNorm ==
  /\ LoadIdle
  /\ conc = ConcIdle /\ dir = DirIdle /\ http = HttpIdle /\ mart = MartIdle
  /\ \E s \in RawFiles : norm = [raw |-> s, df |-> s, state |-> "normalized"]

\* lines 166-168
Deduplicate ==
  /\ norm.state = "normalized"
  /\ norm' = [norm EXCEPT !.df = drop_duplicates(@), !.state = "deduplicated"]
  /\ UNCHANGED <<load, conc, dir, http, mart>>

\* lines 170-174 with dq_checks (lines 124-132): an empty frame or one whose
\* ids are all NA raises, anything else is saved
CheckAndSave ==
  /\ norm.state = "deduplicated"
  /\ norm' = [norm EXCEPT !.state =
                IF \/ norm.df = <<>>
                   \/ \A i \in 1..Len(norm.df) : norm.df[i].id = NULL
                  THEN "failed" ELSE "saved"]
  /\ UNCHANGED <<load, conc, dir, http, mart>>

NextNorm == Deduplicate \/ CheckAndSave

SpecNorm == InitNorm /\ [][NextNorm]_vars

\* C16 as stated: the saved artifact has every id once, and of the raw
\* records with the same id the one kept is the last in source order.
C16_KeepsLast ==
  norm.state = "saved" =>
     /\ \A i, j \in 1..Len(norm.df) :
           norm.df[i].id = norm.df[j].id => i = j
     /\ \A i \in 1..Len(norm.df) :
           norm.df[i] = norm.raw[Max(Occurrences(norm.raw, norm.df[i].id))]

\* C16: the saved artifact has every id of the raw source exactly once, in
\* the order of first appearance, and of the raw records with the same id
\* the one kept is the first in source order.
C16_KeepsFirst ==
  norm.state = "saved" =>
     /\ \A i, j \in 1..Len(norm.df) :
           norm.df[i].id = norm.df[j].id => i = j
     /\ {norm.df[i].id : i \in 1..Len(norm.df)} =
          {norm.raw[i].id : i \in 1..Len(norm.raw)}
     /\ \A i \in 1..Len(norm.df) :
           norm.df[i] = norm.raw[Min(Occurrences(norm.raw, norm.df[i].id))]
     /\ \A i, j \in 1..Len(norm.df) :
           i < j => Min(Occurrences(norm.raw, norm.df[i].id))
                      < Min(Occurrences(norm.raw, norm.df[j].id))

C16_Witness ==
  /\ norm.state = "saved"
  /\ Len(norm.df) < Len(norm.raw)
  /\ \E i, j \in 1..Len(norm.raw) :
        /\ i < j
        /\ norm.raw[i].id = norm.raw[j].id /\ norm.raw[i].id # NULL
        /\ norm.raw[i].score # norm.raw[j].score
        /\ \E k \in 1..Len(norm.df) : norm.df[k] = norm.raw[i]

\* ===== src/src/common/files.py and pick_latest_parquet: the file names ===
\* a staging file hn_staging_<stamp>.<ext>: the stamp is a fixed-width
\* string of digits (strftime("%Y%m%d_%H%M%S")), most significant first
Digits == {0, 9}
Stamps == [1..Width -> Digits]
Exts == {"parquet", "csv"}
Mtimes == {1, 2}
FileRecs == [stamp : Stamps, ext : Exts, mtime : Mtimes]
SameName(f, g) == f.stamp = g.stamp /\ f.ext = g.ext
\* directories of at most MaxListed files, no name twice
Listings ==
  {L \in {{F[i] : i \in 1..n} : n \in 0..MaxListed,
                                F \in [1..MaxListed -> FileRecs]} :
     \A f, g \in L : SameName(f, g) => f = g}

\* the time a stamp denotes
Value(s) ==
  LET V[i \in 0..Len(s)] == IF i = 0 THEN 0 ELSE 10 * V[i - 1] + s[i]
  IN  V[Len(s)]

\* str.__lt__ / Path.__lt__ on two names: the first differing character
\* decides, a proper prefix is smaller
LexLess(a, b) ==
  \/ \E i \in 1..Len(a) :
        /\ i <= Len(b)
        /\ a[i] < b[i]
        /\ \A j \in 1..(i - 1) : a[j] = b[j]
  \/ /\ Len(a) < Len(b)
     /\ \A j \in 1..Len(a) : a[j] = b[j]
LexLeq(a, b) == a = b \/ LexLess(a, b)

\* directory.glob(pattern): the names with the pattern's extension
glob(directory, pattern) == {f \in directory : f.ext = pattern}

\* a selection by modification time
by_mtime(f) == <<f.mtime>>

\* sorted(...) orders the paths by name; the matching names differ in the
\* stamp only
by_name(f) == f.stamp

\* sorted(files)[-1]
sorted_last(S) == CHOOSE f \in S : \A g \in S : LexLeq(by_name(g), by_name(f))

\* files.py, lines 14-17, and hn_load.py, lines 31-34
latest_file_by_name(d, pattern) ==
  IF glob(d.listing, pattern) = {}
    THEN [d EXCEPT !.pattern = pattern, !.picked = NoFile,
                   !.outcome = "not_found", !.stage = "picked"]
    ELSE [d EXCEPT !.pattern = pattern,
                   !.picked = sorted_last(glob(d.listing, pattern)),
                   !.outcome = "returned", !.stage = "picked"]

\* any directory content
InitPick ==
  /\ LoadIdle
  /\ conc = ConcIdle /\ norm = NormIdle /\ http = HttpIdle /\ mart = MartIdle
  /\ \E L \in Listings : dir = [DirIdle EXCEPT !.listing = L, !.stage = "listed"]

\* hn_load.py, lines 30-34: the pattern is hn_staging_*.parquet
PickLatestParquet ==
  /\ dir.stage = "listed"
  /\ dir' = latest_file_by_name(dir, "parquet")
  /\ UNCHANGED <<load, conc, norm, http, mart>>

\* files.py, lines 6-17: any pattern
LatestFileByName ==
  /\ dir.stage = "listed"
  /\ \E pattern \in Exts : dir' = latest_file_by_name(dir, pattern)
  /\ UNCHANGED <<load, conc, norm, http, mart>>

NextPick == PickLatestParquet \/ LatestFileByName

SpecPick == InitPick /\ [][NextPick]_vars

\* C17: for every non-empty set of matching names the reader returns the
\* lexicographically greatest one, which for fixed-width stamps is the
\* most recent by its stamp whatever the modification times; when no name
\* matches it fails with not-found and returns nothing.
C17_PicksGreatestName ==
  dir.stage = "picked" =>
     LET M == glob(dir.listing, dir.pattern)
     IN  IF M = {}
           THEN dir.outcome = "not_found" /\ dir.picked = NoFile
           ELSE /\ dir.outcome = "returned"
                /\ dir.picked \in M
                /\ \A g \in M : LexLeq(g.stamp, dir.picked.stamp)
                /\ \A g \in M : Value(g.stamp) <= Value(dir.picked.stamp)

C17_Witness ==
  /\ dir.stage = "picked" /\ dir.outcome = "returned"
  /\ \E g \in glob(dir.listing, dir.pattern) :
        /\ g.mtime > dir.picked.mtime
        /\ Value(g.stamp) < Value(dir.picked.stamp)

\* ============================== src/src/pipeline.py: main ================
\* extract, transform, load in that order, each to completion.  The load
\* stage is the reader of hn_load.py; pipeline.py imports it under the name
\* run, which hn_load.py does not define.
\* the stamp of this run's clock: later than every file already there
Now == [i \in 1..Width |-> 9]

\* save_staging_csv, lines 138-139: hn_staging_<ts>.csv
staging_name(ts) == [stamp |-> ts, ext |-> "csv", mtime |-> 2]

\* a staging directory left by earlier runs, with or without a raw file
InitPipe ==
  /\ LoadIdle
  /\ conc = ConcIdle /\ norm = NormIdle /\ http = HttpIdle /\ mart = MartIdle
  /\ \E L \in Listings, r \in BOOLEAN :
        /\ \A f \in L : f.stamp # Now
        /\ dir = [DirIdle EXCEPT !.listing = L, !.raw = r, !.stage = "extract"]

\* hn_extract.run, lines 74-100: a raw file is saved
ExtractSaves ==
  /\ dir.stage = "extract"
  /\ dir' = [dir EXCEPT !.raw = TRUE, !.stage = "transform"]
  /\ UNCHANGED <<load, conc, norm, http, mart>>

\* lines 81-84: no ids, nothing saved
ExtractNothing ==
  /\ dir.stage = "extract"
  /\ dir' = [dir EXCEPT !.stage = "transform"]
  /\ UNCHANGED <<load, conc, norm, http, mart>>

\* a request fails for good: the exception ends the pipeline
ExtractRaises ==
  /\ dir.stage = "extract"
  /\ dir' = [dir EXCEPT !.stage = "aborted"]
  /\ UNCHANGED <<load, conc, norm, http, mart>>

\* hn_transform.run, lines 151-174: the staging file is written
TransformSaves ==
  /\ dir.stage = "transform"
  /\ dir.raw
  /\ dir' = [dir EXCEPT !.wrote = staging_name(Now),
                        !.listing = @ \cup {staging_name(Now)},
                        !.stage = "load"]
  /\ UNCHANGED <<load, conc, norm, http, mart>>

\* lines 151-154: no raw file, nothing to transform
TransformNothing ==
  /\ dir.stage = "transform"
  /\ ~dir.raw
  /\ dir' = [dir EXCEPT !.stage = "load"]
  /\ UNCHANGED <<load, conc, norm, http, mart>>

\* dq_checks raises: the exception ends the pipeline
TransformRaises ==
  /\ dir.stage = "transform"
  /\ dir.raw
  /\ dir' = [dir EXCEPT !.stage = "aborted"]
  /\ UNCHANGED <<load, conc, norm, http, mart>>

\* hn_load.main, line 58: pick_latest_parquet(staging_dir)
LoadPicks ==
  /\ dir.stage = "load"
  /\ dir' = latest_file_by_name(dir, "parquet")
  /\ UNCHANGED <<load, conc, norm, http, mart>>

NextPipe ==
  \/ ExtractSaves
  \/ ExtractNothing
  \/ ExtractRaises
  \/ TransformSaves
  \/ TransformNothing
  \/ TransformRaises
  \/ LoadPicks

SpecPipe == InitPipe /\ [][NextPipe]_vars

\* C18: in one pipeline run the name the transform stage writes matches the
\* pattern the load stage lists, and the artifact the load stage selects is
\* the one the transform stage of that run wrote.
C18_LoadSelectsTransformOutput ==
  dir.wrote # NoFile =>
     /\ dir.wrote \in glob(dir.listing, "parquet")
     /\ dir.stage = "picked" => dir.picked = dir.wrote

\* ================== two load runs at once (hn_load.py, lines 54-125) =====
\* Each run of main opens a connection of its own and works in one
\* transaction on staging.hn_stories_tmp.  What a transaction sees of the
\* buffer after 02_tmp.sql is as spec section 4.3 says: a buffer of its own
\* (conc.buf, per connection); a commit publishes it as the table's
\* committed content (conc.tmp).
\* one connection for both runs
ConnShared(r) == 1

\* line 54: conn = psycopg2.connect(**pg), once per run
Conn(r) == r

\* both runs have committed their 'running' rows; each has picked an
\* artifact; the table holds what an earlier run left
InitConc ==
  /\ LoadIdle
  /\ norm = NormIdle /\ dir = DirIdle /\ http = HttpIdle /\ mart = MartIdle
  /\ \E a1, a2 \in Artifacts \ {<<>>} : \E t0 \in {<<>>, a1} :
        conc = [ConcIdle EXCEPT !.pc = [r \in Pair |-> "tmp"],
                                !.art = [r \in Pair |-> IF r = 1 THEN a1
                                                        ELSE a2],
                                !.buf = [c \in Pair |-> t0],
                                !.tmp = t0]

\* line 76: 02_tmp.sql
ConcCreateBuffer ==
  \E r \in Pair :
    /\ conc.pc[r] = "tmp"
    /\ conc' = [conc EXCEPT !.buf[Conn(r)] = create_buffer(@),
                            !.pc[r] = "copy"]
    /\ UNCHANGED <<load, norm, dir, http, mart>>

\* lines 78-98: COPY staging.hn_stories_tmp FROM STDIN
ConcBulkCopy ==
  \E r \in Pair :
    /\ conc.pc[r] = "copy"
    /\ conc' = [conc EXCEPT !.buf[Conn(r)] = copy_expert(@, conc.art[r]),
                            !.pc[r] = "count"]
    /\ UNCHANGED <<load, norm, dir, http, mart>>

\* lines 100-103: SELECT COUNT(*); zero rows is an error
ConcCountRows ==
  \E r \in Pair :
    /\ conc.pc[r] = "count"
    /\ LET n == CountTmp(conc.buf[Conn(r)])
       IN  conc' = [conc EXCEPT !.rows_copied[r] = n,
                                !.pc[r] = IF n = 0 THEN "rollback"
                                          ELSE "merge"]
    /\ UNCHANGED <<load, norm, dir, http, mart>>

\* lines 105-120: 03_merge.sql reads the buffer; UPDATE ... 'success'
ConcMerge ==
  \E r \in Pair :
    /\ conc.pc[r] = "merge"
    /\ conc' = [conc EXCEPT !.merged[r] = conc.buf[Conn(r)],
                            !.pc[r] = "commit"]
    /\ UNCHANGED <<load, norm, dir, http, mart>>

\* line 125: conn.commit()
ConcCommit ==
  \E r \in Pair :
    /\ conc.pc[r] = "commit"
    /\ conc' = [conc EXCEPT !.tmp = Commit(@, conc.buf[Conn(r)]),
                            !.pc[r] = "done"]
    /\ UNCHANGED <<load, norm, dir, http, mart>>

\* a statement of the work transaction raises
ConcRaises ==
  \E r \in Pair :
    /\ conc.pc[r] \in {"tmp", "copy", "merge", "commit"}
    /\ conc' = [conc EXCEPT !.pc[r] = "rollback"]
    /\ UNCHANGED <<load, norm, dir, http, mart>>

\* lines 132-134: conn.rollback()
ConcRollback ==
  \E r \in Pair :
    /\ conc.pc[r] = "rollback"
    /\ conc' = [conc EXCEPT !.buf[Conn(r)] = Rollback(conc.tmp, @),
                            !.pc[r] = "failed"]
    /\ UNCHANGED <<load, norm, dir, http, mart>>

NextConc ==
  \/ ConcCreateBuffer
  \/ ConcBulkCopy
  \/ ConcCountRows
  \/ ConcMerge
  \/ ConcCommit
  \/ ConcRaises
  \/ ConcRollback

SpecConc == InitConc /\ [][NextConc]_vars

====
